---- MODULE Spec2Model ----
(***************************************************************************)
(* Model of src/main.py of miner-u-service: the lifespan of the worker     *)
(* (the background announce() coroutine, the shutdown loop) and the        *)
(* process operation of MyService, all hosted by one asyncio event loop.   *)
(***************************************************************************)
EXTENDS Integers, Sequences, FiniteSets, TLC

\* ------------------------------------------------------------------------
\* Bounds of the model
\* ------------------------------------------------------------------------
MaxRetries == 3      \* settings.engine_announce_retries ranges over 1..MaxRetries
NumEngines == 2      \* number of configured engine urls
MaxFirstOk == 2      \* an engine accepts at its 1st..MaxFirstOk-th attempt, or never
MaxBlocks == 2       \* length of the block list returned by the extraction model

Engines == 1..NumEngines

\* settings.engine_urls: the configured engines in any order
EngineLists ==
    {s \in [1..NumEngines -> Engines] : \A i, j \in 1..NumEngines : s[i] = s[j] => i = j}

VARIABLES
    engine_urls,              \* settings.engine_urls
    engine_announce_retries,  \* settings.engine_announce_retries
    firstOk,                  \* environment: index of the first attempt an engine accepts, 0 = never
    loop,                     \* who holds the thread of the event loop: "free" or "announce"
    apc,                      \* position of the announce() coroutine
    retries,                  \* local `retries` of announce()
    engine_idx,               \* position of `for engine_url in settings.engine_urls` in announce()
    announced,                \* local `announced` of announce()
    attempts,                 \* per engine: announce_service calls issued
    registered,               \* engines whose announce_service call returned True
    warned,                   \* engines during whose loop the abort warning was logged
    spc,                      \* position of lifespan around and after its yield
    shutdown_idx,             \* position of the shutdown for-loop
    deregCalls,               \* per engine: graceful_shutdown calls issued
    deregFailed,              \* engines whose graceful_shutdown call did not succeed
    lateAttempt,              \* engines that got an announce_service call after their graceful_shutdown call
    lateRegistered,           \* engines whose announce_service returned True after their graceful_shutdown call
    image,                    \* the task input: whether the bytes decode, and the decoded size
    extracted_blocks,         \* what two_step_extract returns for that image
    ppc,                      \* position of the process call
    modelCalls,               \* two_step_extract invocations
    result                    \* what process returned

lifecycleVars == <<engine_urls, engine_announce_retries, firstOk, loop, apc, retries,
                   engine_idx, announced, attempts, registered, warned, spc,
                   shutdown_idx, deregCalls, deregFailed, lateAttempt,
                   lateRegistered>>
processVars == <<image, extracted_blocks, ppc, modelCalls, result>>
vars == <<lifecycleVars, processVars>>

\* ------------------------------------------------------------------------
\* Python values
\* ------------------------------------------------------------------------
None == [tag |-> "None"]
PyList(s) == [tag |-> "list", v |-> s]

\* dict.get(key, default)
Get(block, key, default) == IF key \in DOMAIN block THEN block[key] ELSE default

\* truth value of a bbox as tested by `if bbox:` (None and the empty list are falsy)
Truthy(bbox) == bbox # None /\ Len(bbox.v) > 0

\* ------------------------------------------------------------------------
\* lifespan: the background announce() coroutine  (main.py 149-165)
\* ------------------------------------------------------------------------

\* `await service_service.announce_service(my_service, engine_url)`: the boolean the
\* n-th call against engine e returns
announce_service(e, n) == firstOk[e] # 0 /\ n >= firstOk[e]

\* `retries -= 1` after an attempt whose outcome was ok
RetriesAfterAttempt_OnFailureOnly(r, ok) == IF ok THEN r ELSE r - 1
RetriesAfterAttempt(r, ok) == r - 1

\* The for/while control flow of announce() from the test of the while loop of the
\* i-th engine, with local values ann and r: either the next announce_service call
\* is issued (the coroutine suspends on it) or the for loop runs out.
RECURSIVE AnnounceFlow(_, _, _)
AnnounceFlow(i, ann, r) ==
    IF i > Len(engine_urls) THEN [pc |-> "done", idx |-> i, ann |-> ann]
    ELSE IF ~ann /\ r > 0 THEN [pc |-> "awaiting", idx |-> i, ann |-> ann]
    ELSE IF i = Len(engine_urls) THEN [pc |-> "done", idx |-> i, ann |-> ann]
    ELSE AnnounceFlow(i + 1, FALSE, r)

\* The coroutine runs from the point (i, ann, r) to its next suspension point.
AnnounceRunFrom(i, ann, r) ==
    LET f == AnnounceFlow(i, ann, r) IN
    /\ apc' = f.pc
    /\ engine_idx' = f.idx
    /\ announced' = f.ann
    /\ IF f.pc = "awaiting"
       THEN /\ attempts' = [attempts EXCEPT ![engine_urls[f.idx]] = @ + 1]
            /\ lateAttempt' = IF deregCalls[engine_urls[f.idx]] > 0
                              THEN lateAttempt \cup {engine_urls[f.idx]}
                              ELSE lateAttempt
       ELSE UNCHANGED <<attempts, lateAttempt>>

\* asyncio.ensure_future(announce()): the first run of the coroutine, up to its
\* first announce_service call. The task is never stored, awaited or cancelled, so
\* announce() takes its steps whether or not lifespan has returned.
AnnounceStart ==
    /\ apc = "scheduled"
    /\ loop = "free"
    /\ retries' = engine_announce_retries
    /\ AnnounceRunFrom(1, FALSE, engine_announce_retries)
    /\ UNCHANGED <<engine_urls, engine_announce_retries, firstOk, loop, registered,
                   warned, spc, shutdown_idx, deregCalls, deregFailed, lateRegistered>>
    /\ UNCHANGED processVars

\* The announce_service call returns: `retries -= 1`, and on failure the coroutine
\* enters time.sleep without giving the event loop back.
AnnounceResume ==
    /\ apc = "awaiting"
    /\ loop = "free"
    /\ LET e == engine_urls[engine_idx]
           ok == announce_service(e, attempts[e])
           r == RetriesAfterAttempt(retries, ok)
       IN /\ retries' = r
          /\ registered' = IF ok THEN registered \cup {e} ELSE registered
          /\ lateRegistered' = IF ok /\ deregCalls[e] > 0
                               THEN lateRegistered \cup {e} ELSE lateRegistered
          /\ IF ok
             THEN /\ AnnounceRunFrom(engine_idx, TRUE, r)
                  /\ UNCHANGED loop
             ELSE /\ apc' = "sleeping"
                  /\ loop' = "announce"
                  /\ announced' = FALSE
                  /\ UNCHANGED <<engine_idx, attempts, lateAttempt>>
    /\ UNCHANGED <<engine_urls, engine_announce_retries, firstOk, warned, spc,
                   shutdown_idx, deregCalls, deregFailed>>
    /\ UNCHANGED processVars

\* time.sleep returns: the warning when retries == 0, then the while test again
AnnounceWake ==
    /\ apc = "sleeping"
    /\ loop = "announce"
    /\ loop' = "free"
    /\ warned' = IF retries = 0 THEN warned \cup {engine_urls[engine_idx]} ELSE warned
    /\ AnnounceRunFrom(engine_idx, FALSE, retries)
    /\ UNCHANGED <<engine_urls, engine_announce_retries, firstOk, retries, registered,
                   spc, shutdown_idx, deregCalls, deregFailed, lateRegistered>>
    /\ UNCHANGED processVars

\* AnnouncementState of an engine, from what announce() did for it
AnnouncementState(e) ==
    IF e \in registered THEN "Announced"
    ELSE IF e \in warned THEN "Abandoned"
    ELSE "Pending"

\* ------------------------------------------------------------------------
\* lifespan: shutdown  (main.py 167-171)
\* ------------------------------------------------------------------------

\* the engine the shutdown for-loop turns to after the call for its i-th engine
\* returned, having succeeded (ok) or not
ShutdownNextIdx(i, ok) == i + 1

\* The shutdown loop moves to its i-th engine and issues its graceful_shutdown call,
\* or runs out and lifespan returns.
ShutdownRunFrom(i) ==
    IF i > Len(engine_urls)
    THEN /\ spc' = "exited"
         /\ UNCHANGED <<shutdown_idx, deregCalls>>
    ELSE /\ spc' = "awaiting"
         /\ shutdown_idx' = i
         /\ deregCalls' = [deregCalls EXCEPT ![engine_urls[i]] = @ + 1]

\* lifespan is resumed after its yield
ShutdownStart ==
    /\ spc = "serving"
    /\ loop = "free"
    /\ ShutdownRunFrom(1)
    /\ UNCHANGED <<engine_urls, engine_announce_retries, firstOk, loop, apc, retries,
                   engine_idx, announced, attempts, registered, warned, deregFailed,
                   lateAttempt, lateRegistered>>
    /\ UNCHANGED processVars

\* what the awaited graceful_shutdown call can do: return after a successful
\* deregistration, return after a failed one, or raise
ShutdownOutcomes == {"ok", "failed", "raised"}

\* `await service_service.graceful_shutdown(my_service, engine_url)` ends. Nothing
\* around the call catches an exception: a call that raises ends the for loop and
\* lifespan with it, the engines after it getting no call.
ShutdownResume ==
    /\ spc = "awaiting"
    /\ loop = "free"
    /\ \E outcome \in ShutdownOutcomes :
          /\ deregFailed' = IF outcome = "ok" THEN deregFailed
                            ELSE deregFailed \cup {engine_urls[shutdown_idx]}
          /\ IF outcome = "raised"
             THEN /\ spc' = "raised"
                  /\ UNCHANGED <<shutdown_idx, deregCalls>>
             ELSE ShutdownRunFrom(ShutdownNextIdx(shutdown_idx, outcome = "ok"))
    /\ UNCHANGED <<engine_urls, engine_announce_retries, firstOk, loop, apc, retries,
                   engine_idx, announced, attempts, registered, warned,
                   lateAttempt, lateRegistered>>
    /\ UNCHANGED processVars

\* ------------------------------------------------------------------------
\* MyService.process  (main.py 87-121)
\* ------------------------------------------------------------------------

FormatBlock_HeightByWidth(block, width, height) ==
    LET bbox == Get(block, "bbox", None) IN
    IF Truthy(bbox)
    THEN [type |-> Get(block, "type", ""),
          text |-> Get(block, "content", ""),
          position |-> [left |-> bbox.v[1] * width,
                        top |-> bbox.v[2] * height,
                        width |-> (bbox.v[3] - bbox.v[1]) * width,
                        height |-> (bbox.v[4] - bbox.v[2]) * width]]
    ELSE [type |-> Get(block, "type", ""),
          text |-> Get(block, "content", ""),
          position |-> None]

\* the dict built for one block, lines 94-111
FormatBlock(block, width, height) ==
    LET bbox == Get(block, "bbox", None) IN
    IF Truthy(bbox)
    THEN [type |-> Get(block, "type", ""),
          text |-> Get(block, "content", ""),
          position |-> [left |-> bbox.v[1] * width,
                        top |-> bbox.v[2] * height,
                        width |-> (bbox.v[3] - bbox.v[1]) * width,
                        height |-> (bbox.v[4] - bbox.v[2]) * height]]
    ELSE [type |-> Get(block, "type", ""),
          text |-> Get(block, "content", ""),
          position |-> None]

\* the for loop of lines 92-112: formatted_extracted_blocks after the blocks from
\* the i-th on were appended to acc
RECURSIVE FormatBlocks(_, _, _, _, _)
FormatBlocks(blocks, i, acc, width, height) ==
    IF i > Len(blocks) THEN acc
    ELSE FormatBlocks(blocks, i + 1, Append(acc, FormatBlock(blocks[i], width, height)),
                      width, height)

NoResult == [tag |-> "NoResult"]

\* process with the decode error swallowed: an empty document is returned
process_SwallowDecodeError ==
    /\ ppc = "idle"
    /\ loop = "free"
    /\ ppc' = "returned"
    /\ IF ~image.valid
       THEN /\ result' = [boxes |-> <<>>]
            /\ UNCHANGED modelCalls
       ELSE /\ modelCalls' = modelCalls + 1
            /\ result' = [boxes |-> FormatBlocks(extracted_blocks, 1, <<>>,
                                                 image.width, image.height)]
    /\ UNCHANGED <<image, extracted_blocks>>
    /\ UNCHANGED lifecycleVars

\* One call of process(data) by the task runner. Image.open raises on bytes that are
\* no image and nothing catches it; otherwise the model is invoked once and the
\* document {"boxes": [...]} is returned.
process ==
    /\ ppc = "idle"
    /\ loop = "free"
    /\ IF ~image.valid
       THEN /\ ppc' = "raised"
            /\ UNCHANGED <<modelCalls, result>>
       ELSE /\ ppc' = "returned"
            /\ modelCalls' = modelCalls + 1
            /\ result' = [boxes |-> FormatBlocks(extracted_blocks, 1, <<>>,
                                                 image.width, image.height)]
    /\ UNCHANGED <<image, extracted_blocks>>
    /\ UNCHANGED lifecycleVars

\* ------------------------------------------------------------------------
\* Inputs
\* ------------------------------------------------------------------------
Absent == [tag |-> "absent"]
Coords == {0, 1}
BBoxes == {None, PyList(<<>>)} \cup {PyList(<<l, t, r, b>>) : l \in Coords, t \in Coords,
                                                           r \in Coords, b \in Coords}
EmptyDict == [k \in {} |-> k]

\* a dict with the keys that are not Absent
Block(t, c, b) ==
    (IF t = "absent" THEN EmptyDict ELSE "type" :> t)
    @@ (IF c = "absent" THEN EmptyDict ELSE "content" :> c)
    @@ (IF b = Absent THEN EmptyDict ELSE "bbox" :> b)

Blocks == {Block(t, c, b) : t \in {"absent", "title"}, c \in {"absent", "Hello"},
                            b \in BBoxes \cup {Absent}}

RECURSIVE SeqsUpTo(_, _)
SeqsUpTo(S, n) ==
    IF n = 0 THEN {<<>>}
    ELSE LET shorter == SeqsUpTo(S, n - 1) IN
         shorter \cup {Append(s, x) : s \in {q \in shorter : Len(q) = n - 1}, x \in S}

NoImage == [valid |-> FALSE]
ImageSizes == {<<3, 2>>, <<200, 100>>}
Images == {[valid |-> TRUE, width |-> wh[1], height |-> wh[2]] : wh \in ImageSizes}

InitLifecycle ==
    /\ engine_urls \in EngineLists
    /\ engine_announce_retries \in 1..MaxRetries
    /\ firstOk \in [Engines -> 0..MaxFirstOk]
    /\ loop = "free"
    /\ apc = "scheduled"
    /\ retries = 0
    /\ engine_idx = 0
    /\ announced = FALSE
    /\ attempts = [e \in Engines |-> 0]
    /\ registered = {}
    /\ warned = {}
    /\ spc = "serving"
    /\ shutdown_idx = 0
    /\ deregCalls = [e \in Engines |-> 0]
    /\ deregFailed = {}
    /\ lateAttempt = {}
    /\ lateRegistered = {}

InitProcessIdle ==
    /\ ppc = "idle"
    /\ modelCalls = 0
    /\ result = NoResult

\* the worker's whole life, with one task of either kind
Init ==
    /\ InitLifecycle
    /\ InitProcessIdle
    /\ \/ image = NoImage /\ extracted_blocks = <<>>
       \/ /\ image = [valid |-> TRUE, width |-> 3, height |-> 2]
          /\ extracted_blocks = <<Block("title", "Hello", PyList(<<0, 0, 1, 1>>)),
                                  Block("title", "Hello", Absent)>>

Next ==
    \/ AnnounceStart
    \/ AnnounceResume
    \/ AnnounceWake
    \/ ShutdownStart
    \/ ShutdownResume
    \/ process

Spec == Init /\ [][Next]_vars

\* process alone, over every image and every model output within the bounds
InitProcess ==
    /\ InitLifecycle
    /\ engine_urls = [i \in 1..NumEngines |-> i]
    /\ engine_announce_retries = 1
    /\ firstOk = [e \in Engines |-> 1]
    /\ InitProcessIdle
    /\ \/ image = NoImage /\ extracted_blocks = <<>>
       \/ image \in Images /\ extracted_blocks \in SeqsUpTo(Blocks, MaxBlocks)

NextProcess == process

SpecProcess == InitProcess /\ [][NextProcess]_vars

\* ------------------------------------------------------------------------
\* Properties
\* ------------------------------------------------------------------------
RECURSIVE SumOver(_, _)
SumOver(f, S) == IF S = {} THEN 0
                 ELSE LET x == CHOOSE y \in S : TRUE IN f[x] + SumOver(f, S \ {x})

TotalAttempts == SumOver(attempts, Engines)

\* the number of attempts C2 promises an engine: min(k, N), k its first accepted attempt
PromisedAttempts(e) ==
    IF firstOk[e] # 0 /\ firstOk[e] <= engine_announce_retries
    THEN firstOk[e] ELSE engine_announce_retries

\* C1: when announce() has run to its end, an engine B whose registration call
\* succeeds has been attempted and is Announced even though another engine A fails
\* every attempt, whatever their order in engine_urls.
C1_MultiEngineIndependence ==
    apc = "done" =>
        \A a, b \in Engines :
            (a # b /\ firstOk[a] = 0 /\ firstOk[b] = 1)
                => (attempts[b] >= 1 /\ AnnouncementState(b) = "Announced")

\* C2: when announce() has run to its end, every engine got exactly min(k, N)
\* attempts; it is Announced when k <= N and Abandoned (after N attempts) otherwise.
C2_AttemptsPerEngine ==
    apc = "done" =>
        \A e \in Engines :
            /\ attempts[e] = PromisedAttempts(e)
            /\ AnnouncementState(e) =
                   IF firstOk[e] # 0 /\ firstOk[e] <= engine_announce_retries
                   THEN "Announced" ELSE "Abandoned"

\* C3: while announce() waits out its inter-retry delay, the other activities of the
\* event loop can take their steps: a pending process call can run and a pending
\* shutdown can begin.
C3_DelayYieldsEventLoop ==
    apc = "sleeping" =>
        /\ (ppc = "idle" => ENABLED process)
        /\ (spc = "serving" => ENABLED ShutdownStart)

\* C4: no engine gets more than one graceful_shutdown call; a failed call, however
\* it fails, is followed by the call for the next engine and never ends lifespan with
\* an error; and when shutdown is over every configured engine got exactly one call,
\* whatever its announcement state.
C4_OneDeregistrationEach ==
    /\ \A e \in Engines : deregCalls[e] <= 1
    /\ \A j \in 1..(Len(engine_urls) - 1) :
           engine_urls[j] \in deregFailed => deregCalls[engine_urls[j + 1]] = 1
    /\ spc # "raised"
    /\ spc = "exited" => \A j \in 1..Len(engine_urls) : deregCalls[engine_urls[j]] = 1

\* the FormattedBlock C5 promises for one raw block
PromisedBlock(b, W, H) ==
    [type |-> IF "type" \in DOMAIN b THEN b["type"] ELSE "",
     text |-> IF "content" \in DOMAIN b THEN b["content"] ELSE "",
     position |->
        IF "bbox" \notin DOMAIN b THEN None
        ELSE IF b["bbox"] = None \/ b["bbox"] = PyList(<<>>) THEN None
        ELSE [left |-> b["bbox"].v[1] * W,
              top |-> b["bbox"].v[2] * H,
              width |-> (b["bbox"].v[3] - b["bbox"].v[1]) * W,
              height |-> (b["bbox"].v[4] - b["bbox"].v[2]) * H]]

\* C5: the boxes process returns are as many as the raw blocks, and the i-th box is
\* the i-th raw block's type, content and bbox scaled by the image size (position
\* null without a bbox).
C5_BoxesFollowBlocks ==
    ppc = "returned" =>
        /\ Len(result.boxes) = Len(extracted_blocks)
        /\ \A i \in 1..Len(extracted_blocks) :
               result.boxes[i] = PromisedBlock(extracted_blocks[i], image.width, image.height)

\* C5 witness: two different raw blocks were formatted, the first without a usable
\* bbox and the second with one.
C5_Witness ==
    /\ ppc = "returned"
    /\ Len(extracted_blocks) = 2
    /\ result.boxes[1].position = None
    /\ result.boxes[2].position # None
    /\ result.boxes[2].position.width > 0
    /\ image.width # image.height

\* C6: every box with a position has a width and a height that are not negative.
C6_NonNegativeExtent ==
    ppc = "returned" =>
        \A i \in 1..Len(result.boxes) :
            result.boxes[i].position # None =>
                /\ result.boxes[i].position.width >= 0
                /\ result.boxes[i].position.height >= 0

\* C7: a process call on bytes that are no image ends in the raised decode error:
\* nothing is returned and the extraction model was not invoked.
C7_DecodeErrorSurfaced ==
    (~image.valid /\ ppc # "idle") =>
        (ppc = "raised" /\ result = NoResult /\ modelCalls = 0)

C7_Witness == ~image.valid /\ ppc = "raised"

\* C8: when announce() has run to its end no engine is left Pending.
C8_NoEnginePendingAtEnd ==
    apc = "done" => \A e \in Engines : AnnouncementState(e) \in {"Announced", "Abandoned"}

\* C9: the attempts of all engines together never exceed engine_announce_retries,
\* `retries` never drops below 0, and every attempt whose outcome is known has taken
\* one unit from `retries`.
C9_SharedRetryBudget ==
    /\ TotalAttempts <= engine_announce_retries
    /\ retries >= 0
    /\ apc # "scheduled" =>
           retries = engine_announce_retries
                     - (TotalAttempts - (IF apc = "awaiting" THEN 1 ELSE 0))

\* C9 witness: the budget was used up by attempts against several engines, one of
\* them successful.
C9_Witness ==
    /\ apc = "done"
    /\ retries = 0
    /\ TotalAttempts = engine_announce_retries
    /\ registered # {}
    /\ \E a, b \in Engines : a # b /\ attempts[a] >= 1 /\ attempts[b] >= 1

\* C10: no announce_service call against an engine is issued, and none returns True,
\* after the graceful_shutdown call for that engine was issued.
C10_NoRegistrationAfterDeregistration ==
    lateAttempt = {} /\ lateRegistered = {}

====
